---- MODULE Spec2Model ----
(***************************************************************************)
(* The errcheckif analyzer: the two passes of run (P1, the if-else merge   *)
(* pass over every BlockStmt; P2, the per-assignment pass over every       *)
(* AssignStmt) and the helpers they call, over a go/ast tree.              *)
(*                                                                         *)
(* The repository holds two copies of the analyzer that differ only in P1: *)
(* src/errcheckif.go (findCommonErrorVar, handler looked for in the next   *)
(* statement only) and src/unnamed/part_001 (findLastUnhandledError,       *)
(* forward scan).  The variable impl says which copy runs.                 *)
(*                                                                         *)
(* A node is a record with a field kind; a node's identity (the pointer of *)
(* the Go code, and its token.Pos) is its address: the sequence of steps   *)
(* <<field, index>> leading to it from the File node.                      *)
(***************************************************************************)
EXTENDS Integers, Sequences, FiniteSets, TLC

VARIABLES
    file,      \* the *ast.File under analysis (pass.Files)
    impl,      \* which copy of run is executing: "errcheckif.go" or "part_001"
    pc,        \* "P1", "P2", "done" (position in run); "eval"/"evaluated" for the pure functions
    blocks,    \* BlockStmt addresses P1's Preorder has still to visit
    assigns,   \* AssignStmt addresses P2's Preorder has still to visit
    diags,     \* diagnostics reported so far (pass.Reportf), in order
    cond,      \* checkCondition's condition argument (pure-function specification)
    target,    \* the tracked identifier errIdent (pure-function specifications)
    stmt,      \* isStmtAValidHandler's statement argument, as an address in file
    verdict    \* result of the pure function last applied

vars == <<file, impl, pc, blocks, assigns, diags, cond, target, stmt, verdict>>

----------------------------------------------------------------------------
(* types.Info: objects (declarations), their names and types *)

NoObj == "none"

\* The declarations an identifier can resolve to.  err1 and err2 are two
\* distinct variables both named err (shadowing); e is a third error variable;
\* sentinel is a package-level error value (http.ErrServerClosed); s a string.
Objs == {"err1", "err2", "e", "sentinel", "s", "nil"}

Name(o) ==
    CASE o = "err1" -> "err"
      [] o = "err2" -> "err"
      [] o = "e" -> "e"
      [] o = "sentinel" -> "ErrServerClosed"
      [] o = "s" -> "s"
      [] o = "nil" -> "nil"
      [] OTHER -> "_"

TypeOf(o) ==
    CASE o \in {"err1", "err2", "e", "sentinel"} -> "error"
      [] o = "s" -> "string"
      [] o = "nil" -> "untyped nil"
      [] OTHER -> "invalid"

\* types.Implements(T, errorInterface)
ImplementsError(t) == t = "error"

----------------------------------------------------------------------------
(* go/ast nodes *)

None == [kind |-> "None"]

Ident(o) == [kind |-> "Ident", name |-> Name(o), obj |-> o]
Blank == [kind |-> "Ident", name |-> "_", obj |-> NoObj]
NilLit == Ident("nil")
OtherExpr == [kind |-> "BasicLit"]
FieldSel == [kind |-> "SelectorExpr", x |-> Ident("s"), sel |-> "err"]

BinaryExpr(op, x, y) == [kind |-> "BinaryExpr", op |-> op, x |-> x, y |-> y]
ParenExpr(x) == [kind |-> "ParenExpr", x |-> x]
\* pkg.sel(args)
QualCall(pkg, sel, args) ==
    [kind |-> "CallExpr",
     fun |-> [kind |-> "SelectorExpr", x |-> [kind |-> "Ident", name |-> pkg, obj |-> pkg], sel |-> sel],
     args |-> args]
\* f(args), callee a plain identifier
PlainCall(f, args) ==
    [kind |-> "CallExpr", fun |-> [kind |-> "Ident", name |-> f, obj |-> f], args |-> args]
\* a call on the right of an assignment: isSig says whether the callee's type
\* is a *types.Signature (false for a conversion), results its result types
RhsCall(isSig, results) ==
    [kind |-> "CallExpr", fun |-> [kind |-> "Ident", name |-> "f", obj |-> "f"],
     args |-> <<>>, isSig |-> isSig, results |-> results]

AssignStmt(lhs, rhs) == [kind |-> "AssignStmt", lhs |-> lhs, rhs |-> rhs]
BlockStmt(list) == [kind |-> "BlockStmt", list |-> list]
IfStmt(init, c, body, els) ==
    [kind |-> "IfStmt", init |-> init, cond |-> c, body |-> BlockStmt(body), els |-> els]
ReturnStmt(results) == [kind |-> "ReturnStmt", results |-> results]
ExprStmt == [kind |-> "ExprStmt"]
CaseClause(body) == [kind |-> "CaseClause", list |-> body]
CommClause(body) == [kind |-> "CommClause", list |-> body]
SwitchStmt(clauses) == [kind |-> "SwitchStmt", body |-> BlockStmt(clauses)]
SelectStmt(clauses) == [kind |-> "SelectStmt", body |-> BlockStmt(clauses)]
ForStmt(body) == [kind |-> "ForStmt", body |-> BlockStmt(body)]
FuncLit(results, body) == [kind |-> "FuncLit", results |-> results, body |-> BlockStmt(body)]
\* go func(...) (...) { body }()
GoStmt(results, body) ==
    [kind |-> "GoStmt", call |-> [kind |-> "CallExpr", fun |-> FuncLit(results, body), args |-> <<>>]]
\* results: the identifiers of the named result slots (Type.Results.List[..].Names)
FuncDecl(results, body) == [kind |-> "FuncDecl", results |-> results, body |-> BlockStmt(body)]
File(name, decl) == [kind |-> "File", name |-> name, decl |-> decl]

----------------------------------------------------------------------------
(* tree navigation: ast.Walk order, astutil.PathEnclosingInterval *)

Range(s) == {s[i] : i \in 1..Len(s)}

RECURSIVE Flatten(_)
Flatten(ss) == IF ss = <<>> THEN <<>> ELSE Head(ss) \o Flatten(Tail(ss))

\* the statement-bearing children of a node, in ast.Walk order
Steps(n) ==
    CASE n.kind = "File" -> << <<"decl", 0>> >>
      [] n.kind \in {"FuncDecl", "FuncLit", "SwitchStmt", "SelectStmt", "ForStmt"} ->
            << <<"body", 0>> >>
      [] n.kind \in {"BlockStmt", "CaseClause", "CommClause"} ->
            [i \in 1..Len(n.list) |-> <<"list", i>>]
      [] n.kind = "IfStmt" ->
            (IF n.init.kind = "None" THEN <<>> ELSE << <<"init", 0>> >>)
            \o << <<"body", 0>> >>
            \o (IF n.els.kind = "None" THEN <<>> ELSE << <<"els", 0>> >>)
      [] n.kind = "GoStmt" -> << <<"call", 0>> >>
      [] n.kind = "CallExpr" -> IF n.fun.kind = "FuncLit" THEN << <<"fun", 0>> >> ELSE <<>>
      [] OTHER -> <<>>

Child(n, st) == IF st[1] = "list" THEN n.list[st[2]] ELSE n[st[1]]

RECURSIVE NodeAt(_, _)
NodeAt(n, addr) == IF addr = <<>> THEN n ELSE NodeAt(Child(n, Head(addr)), Tail(addr))

\* addresses of n and of every node under it, in preorder
RECURSIVE Walk(_, _)
Walk(n, addr) ==
    <<addr>> \o Flatten([i \in 1..Len(Steps(n)) |->
                           Walk(Child(n, Steps(n)[i]), Append(addr, Steps(n)[i]))])

\* inspector.Preorder restricted to one node type
OfKind(f, k) == SelectSeq(Walk(f, <<>>), LAMBDA a : NodeAt(f, a).kind = k)

\* path[k] of astutil.PathEnclosingInterval for the node at addr: its k-th
\* ancestor (path[0] the node itself, the last one the File)
Parent(addr, k) == SubSeq(addr, 1, Len(addr) - k)
PathLen(addr) == Len(addr) + 1

----------------------------------------------------------------------------
(* the helpers shared by both copies of the analyzer *)

\* isIdent: expr is an identifier denoting the same declaration as targetIdent
isIdent(expr, targetIdent) == expr.kind = "Ident" /\ expr.obj = targetIdent.obj

\* isNil: expr is the predeclared nil
isNil(expr) == expr.kind = "Ident" /\ expr.obj = "nil"

\* checkCondition with && demanding a check on both sides
RECURSIVE checkConditionBothSides(_, _)
checkConditionBothSides(c, errIdent) ==
    CASE c.kind = "BinaryExpr" ->
            IF c.op = "LOR"
            THEN checkConditionBothSides(c.x, errIdent) \/ checkConditionBothSides(c.y, errIdent)
            ELSE IF c.op = "LAND"
            THEN checkConditionBothSides(c.x, errIdent) /\ checkConditionBothSides(c.y, errIdent)
            ELSE IF c.op \in {"NEQ", "EQL"}
            THEN \/ isIdent(c.x, errIdent) /\ isNil(c.y)
                 \/ isNil(c.x) /\ isIdent(c.y, errIdent)
            ELSE FALSE
      [] c.kind = "CallExpr" ->
            IF c.fun.kind # "SelectorExpr" THEN FALSE
            ELSE IF ~(c.fun.x.kind = "Ident" /\ c.fun.x.name = "errors") THEN FALSE
            ELSE IF c.fun.sel # "Is" /\ c.fun.sel # "As" THEN FALSE
            ELSE Len(c.args) > 0 /\ isIdent(c.args[1], errIdent)
      [] OTHER -> FALSE

\* checkCondition without the test that the qualifier is `errors`
RECURSIVE checkConditionAnyPackage(_, _)
checkConditionAnyPackage(c, errIdent) ==
    CASE c.kind = "BinaryExpr" ->
            IF c.op \in {"LOR", "LAND"}
            THEN checkConditionAnyPackage(c.x, errIdent) \/ checkConditionAnyPackage(c.y, errIdent)
            ELSE IF c.op \in {"NEQ", "EQL"}
            THEN \/ isIdent(c.x, errIdent) /\ isNil(c.y)
                 \/ isNil(c.x) /\ isIdent(c.y, errIdent)
            ELSE FALSE
      [] c.kind = "CallExpr" ->
            IF c.fun.kind # "SelectorExpr" THEN FALSE
            ELSE IF c.fun.x.kind # "Ident" THEN FALSE
            ELSE IF c.fun.sel # "Is" /\ c.fun.sel # "As" THEN FALSE
            ELSE Len(c.args) > 0 /\ isIdent(c.args[1], errIdent)
      [] OTHER -> FALSE

\* checkCondition: does the if condition c check errIdent
RECURSIVE checkCondition(_, _)
checkCondition(c, errIdent) ==
    CASE c.kind = "BinaryExpr" ->
            IF c.op \in {"LOR", "LAND"}
            THEN checkCondition(c.x, errIdent) \/ checkCondition(c.y, errIdent)
            ELSE IF c.op \in {"NEQ", "EQL"}
            THEN \/ isIdent(c.x, errIdent) /\ isNil(c.y)
                 \/ isNil(c.x) /\ isIdent(c.y, errIdent)
            ELSE FALSE
      [] c.kind = "CallExpr" ->
            IF c.fun.kind # "SelectorExpr" THEN FALSE
            ELSE IF ~(c.fun.x.kind = "Ident" /\ c.fun.x.name = "errors") THEN FALSE
            ELSE IF c.fun.sel # "Is" /\ c.fun.sel # "As" THEN FALSE
            ELSE Len(c.args) > 0 /\ isIdent(c.args[1], errIdent)
      [] OTHER -> FALSE

\* the addresses of the FuncDecl nodes on the path of addr, innermost first
FuncDeclsOnPath(f, addr) ==
    SelectSeq([k \in 1..PathLen(addr) |-> Parent(addr, k - 1)],
              LAMBDA a : NodeAt(f, a).kind = "FuncDecl")

\* isStmtAValidHandler: is the statement at address s an if that checks
\* errIdent or a return that propagates it
isStmtAValidHandler(f, s, errIdent) ==
    LET n == NodeAt(f, s) IN
    CASE n.kind = "IfStmt" -> checkCondition(n.cond, errIdent)
      [] n.kind = "ReturnStmt" ->
            \/ \E i \in 1..Len(n.results) : isIdent(n.results[i], errIdent)
            \/ /\ Len(n.results) = 0
               /\ FuncDeclsOnPath(f, s) # <<>>
               /\ LET fd == NodeAt(f, Head(FuncDeclsOnPath(f, s)))
                  IN \E i \in 1..Len(fd.results) : isIdent(fd.results[i], errIdent)
      [] OTHER -> FALSE

\* isIdentifierReassigned looking at the statement itself only, not inside it
isIdentifierReassignedShallow(f, s, errIdent) ==
    /\ errIdent.obj # NoObj
    /\ NodeAt(f, s).kind = "AssignStmt"
    /\ \E i \in 1..Len(NodeAt(f, s).lhs) :
          NodeAt(f, s).lhs[i].kind = "Ident" /\ NodeAt(f, s).lhs[i].obj = errIdent.obj

\* isIdentifierReassigned: does the statement at address s contain, at any
\* depth (ast.Inspect), an assignment whose left side is errIdent's variable
isIdentifierReassigned(f, s, errIdent) ==
    /\ errIdent.obj # NoObj
    /\ \E a \in Range(Walk(NodeAt(f, s), <<>>)) :
          LET n == NodeAt(NodeAt(f, s), a) IN
          /\ n.kind = "AssignStmt"
          /\ \E i \in 1..Len(n.lhs) : n.lhs[i].kind = "Ident" /\ n.lhs[i].obj = errIdent.obj

\* getStmtList knowing blocks only
getStmtListBlocksOnly(n) == IF n.kind = "BlockStmt" THEN n.list ELSE <<>>

\* getStmtList: the statement list of a block, a switch case or a select case;
\* <<>> stands for Go's nil
getStmtList(n) ==
    IF n.kind \in {"BlockStmt", "CaseClause", "CommClause"} THEN n.list ELSE <<>>

\* the forward scan over list[from..]: "handled" at the first handler,
\* "unhandled" at the first re-binding or at the end
RECURSIVE ScanFrom(_, _, _, _)
ScanFrom(f, listAddr, j, errIdent) ==
    IF j > Len(getStmtList(NodeAt(f, listAddr))) THEN FALSE
    ELSE IF isStmtAValidHandler(f, Append(listAddr, <<"list", j>>), errIdent) THEN TRUE
    ELSE IF isIdentifierReassigned(f, Append(listAddr, <<"list", j>>), errIdent) THEN FALSE
    ELSE ScanFrom(f, listAddr, j + 1, errIdent)

\* isHandledInSubsequentStatement: climb the path (i = 1 ..) to the first
\* ancestor whose statement list holds path[i-1], and scan the statements
\* after it
RECURSIVE SubsequentFrom(_, _, _, _)
SubsequentFrom(f, addr, i, errIdent) ==
    IF i >= PathLen(addr) THEN FALSE
    ELSE LET anc == Parent(addr, i)
             below == Parent(addr, i - 1)
             lst == getStmtList(NodeAt(f, anc))
             last == below[Len(below)]
         IN IF lst = <<>> THEN SubsequentFrom(f, addr, i + 1, errIdent)
            ELSE IF last[1] = "list"
            THEN ScanFrom(f, anc, last[2] + 1, errIdent)
            ELSE SubsequentFrom(f, addr, i + 1, errIdent)

\* the forward scan with its three outcomes told apart
RECURSIVE ScanOutcome(_, _, _, _)
ScanOutcome(f, listAddr, j, errIdent) ==
    IF j > Len(getStmtList(NodeAt(f, listAddr))) THEN "exhausted"
    ELSE IF isStmtAValidHandler(f, Append(listAddr, <<"list", j>>), errIdent) THEN "handled"
    ELSE IF isIdentifierReassigned(f, Append(listAddr, <<"list", j>>), errIdent) THEN "unhandled"
    ELSE ScanOutcome(f, listAddr, j + 1, errIdent)

RECURSIVE ClimbFrom(_, _, _, _)
ClimbFrom(f, addr, i, errIdent) ==
    IF i >= PathLen(addr) THEN FALSE
    ELSE LET anc == Parent(addr, i)
             below == Parent(addr, i - 1)
             lst == getStmtList(NodeAt(f, anc))
             last == below[Len(below)]
         IN IF lst = <<>> \/ last[1] # "list" THEN ClimbFrom(f, addr, i + 1, errIdent)
            ELSE LET o == ScanOutcome(f, anc, last[2] + 1, errIdent) IN
                 IF o = "exhausted" THEN ClimbFrom(f, addr, i + 1, errIdent)
                 ELSE o = "handled"

\* isHandledInSubsequentStatement going on into the outer sequences when a
\* sequence is exhausted
isHandledInSubsequentStatementOuter(f, addr, errIdent) == ClimbFrom(f, addr, 1, errIdent)

\* isHandledInSubsequentStatement looking at the immediate parent only
isHandledInSubsequentStatementNoClimb(f, addr, errIdent) ==
    /\ getStmtList(NodeAt(f, Parent(addr, 1))) # <<>>
    /\ addr[Len(addr)][1] = "list"
    /\ ScanFrom(f, Parent(addr, 1), addr[Len(addr)][2] + 1, errIdent)

isHandledInSubsequentStatement(f, addr, errIdent) == SubsequentFrom(f, addr, 1, errIdent)

\* isHandledInIfInit: the assignment at addr is the Init of an if whose
\* condition checks errIdent
isHandledInIfInit(f, addr, errIdent) ==
    IF PathLen(addr) < 2 THEN FALSE
    ELSE LET p == NodeAt(f, Parent(addr, 1)) IN
         IF ~(p.kind = "IfStmt" /\ addr[Len(addr)][1] = "init") THEN FALSE
         ELSE checkCondition(p.cond, errIdent)

\* isElseBlock: is the block at address b the else block of the else chain
\* elseStmt (at address e), or the body of one of its else-ifs
RECURSIVE isElseBlock(_, _, _)
isElseBlock(f, e, b) ==
    LET n == NodeAt(f, e) IN
    IF n.kind = "None" THEN FALSE
    ELSE IF n.kind = "BlockStmt" /\ e = b THEN TRUE
    ELSE IF n.kind = "IfStmt"
    THEN isElseBlock(f, Append(e, <<"els", 0>>), b) \/ Append(e, <<"body", 0>>) = b
    ELSE FALSE

\* the "skip the if-else structure" test of P2: the assignment at addr is a
\* statement of the body of an if that has an else, or of an else block
InIfElse(f, addr) ==
    /\ PathLen(addr) > 2
    /\ NodeAt(f, Parent(addr, 1)).kind = "BlockStmt"
    /\ NodeAt(f, Parent(addr, 2)).kind = "IfStmt"
    /\ LET blk == Parent(addr, 1)
           ifa == Parent(addr, 2)
       IN \/ blk = Append(ifa, <<"body", 0>>) /\ NodeAt(f, ifa).els.kind # "None"
          \/ isElseBlock(f, Append(ifa, <<"els", 0>>), blk)

----------------------------------------------------------------------------
(* diagnostics *)

MsgIgnored == "error returned from function call is ignored"
MsgUnchecked == "error '%s' is not checked or returned"
MsgMergeNew == "error variable '%s' assigned in if-else block is not checked"
MsgMergeOld == "error variable '%s' assigned in if-else block is not checked immediately after"
MergeMsgs == {MsgMergeNew, MsgMergeOld}

\* pass.Reportf(pos, msg, name); about: the positions of the identifiers the
\* report was derived from (not part of the Go diagnostic)
Report(pos, msg, name, about) == [pos |-> pos, msg |-> msg, name |-> name, about |-> about]

\* position of the k-th left-hand expression of the assignment at address a
LhsPos(a, k) == Append(a, <<"lhs", k>>)

----------------------------------------------------------------------------
(* P1, the if-else pass *)

\* the error-typed, non-blank identifiers assigned by the direct statements
\* of the block at address b, in statement and left-to-right order
ErrorAssignments(f, b) ==
    LET lst == NodeAt(f, b).list IN
    Flatten([i \in 1..Len(lst) |->
        IF lst[i].kind # "AssignStmt" THEN <<>>
        ELSE SelectSeq(
               [k \in 1..Len(lst[i].lhs) |->
                  [kind |-> "Cand", ident |-> lst[i].lhs[k],
                   pos |-> LhsPos(Append(b, <<"list", i>>), k), idx |-> i]],
               LAMBDA c : /\ c.ident.kind = "Ident"
                          /\ c.ident.name # "_"
                          /\ ImplementsError(TypeOf(c.ident.obj)))])

\* findLastUnhandledError keeping the first unhandled identifier, not the last
findFirstUnhandledError(f, b) ==
    IF NodeAt(f, b).kind # "BlockStmt" THEN None
    ELSE LET n == Len(NodeAt(f, b).list)
             unh == SelectSeq(ErrorAssignments(f, b), LAMBDA c :
                       ~\E j \in (c.idx + 1)..n :
                           isStmtAValidHandler(f, Append(b, <<"list", j>>), c.ident))
         IN IF unh = <<>> THEN None ELSE unh[1]

\* findLastUnhandledError (part_001): the last assigned error identifier of
\* the block with no handler among the later statements of the block
findLastUnhandledError(f, b) ==
    IF NodeAt(f, b).kind # "BlockStmt" THEN None
    ELSE LET n == Len(NodeAt(f, b).list)
             unh == SelectSeq(ErrorAssignments(f, b), LAMBDA c :
                       ~\E j \in (c.idx + 1)..n :
                           isStmtAValidHandler(f, Append(b, <<"list", j>>), c.ident))
         IN IF unh = <<>> THEN None ELSE unh[Len(unh)]

\* findErrorAssignment (errcheckif.go): the first assigned error identifier
findErrorAssignment(f, b) ==
    IF ErrorAssignments(f, b) = <<>> THEN None ELSE Head(ErrorAssignments(f, b))

\* getBlockStmtFromBody (part_001): the address itself for a block, None
\* (nil) for an else-if or a missing else
getBlockStmtFromBody(f, a) == IF NodeAt(f, a).kind = "BlockStmt" THEN a ELSE <<>>

\* errIdent := errIdentIf, remembering both arms' identifiers
Merged(errIdentIf, errIdentElse) ==
    [kind |-> "Cand", ident |-> errIdentIf.ident, pos |-> errIdentIf.pos,
     about |-> {errIdentIf.pos, errIdentElse.pos}]

\* findCommonErrorVar (errcheckif.go): the identifier assigned in both arms
\* (else arm: the else block, or the body of the else-if), by declaration
findCommonErrorVar(f, ifa) ==
    LET els == NodeAt(f, ifa).els
        elseBody == IF els.kind = "BlockStmt" THEN Append(ifa, <<"els", 0>>)
                    ELSE Append(Append(ifa, <<"els", 0>>), <<"body", 0>>)
        errIdentIf == findErrorAssignment(f, Append(ifa, <<"body", 0>>))
        errIdentElse == findErrorAssignment(f, elseBody)
    IN IF els.kind \notin {"BlockStmt", "IfStmt"} THEN None
       ELSE IF errIdentIf.kind # "None" /\ errIdentElse.kind # "None"
               /\ errIdentIf.ident.obj = errIdentElse.ident.obj
       THEN Merged(errIdentIf, errIdentElse)
       ELSE None

\* the two arms' candidates of part_001, merged when their names agree
CommonUnhandled(f, ifa) ==
    LET errIdentIf == findLastUnhandledError(f, getBlockStmtFromBody(f, Append(ifa, <<"body", 0>>)))
        errIdentElse == findLastUnhandledError(f, getBlockStmtFromBody(f, Append(ifa, <<"els", 0>>)))
    IN IF errIdentIf.kind = "None" \/ errIdentElse.kind = "None" THEN None
       ELSE IF errIdentIf.ident.name # errIdentElse.ident.name THEN None
       ELSE Merged(errIdentIf, errIdentElse)

\* the body of P1's loop for statement i of the block at address b, part_001
P1StmtNew(f, b, i) ==
    LET ifa == Append(b, <<"list", i>>)
        n == NodeAt(f, ifa)
    IN IF n.kind # "IfStmt" THEN <<>>
       ELSE IF n.els.kind = "None" \/ getBlockStmtFromBody(f, Append(ifa, <<"els", 0>>)) = <<>> THEN <<>>
       ELSE LET c == CommonUnhandled(f, ifa) IN
            IF c.kind = "None" THEN <<>>
            ELSE IF ScanFrom(f, b, i + 1, c.ident) THEN <<>>
            ELSE <<Report(ifa, MsgMergeNew, c.ident.name, c.about)>>

\* the body of P1's loop for statement i of the block at address b, errcheckif.go
P1StmtOld(f, b, i) ==
    LET ifa == Append(b, <<"list", i>>)
        n == NodeAt(f, ifa)
    IN IF n.kind # "IfStmt" THEN <<>>
       ELSE IF n.els.kind = "None" THEN <<>>
       ELSE LET c == findCommonErrorVar(f, ifa) IN
            IF c.kind = "None" THEN <<>>
            ELSE IF i + 1 <= Len(NodeAt(f, b).list)
                    /\ isStmtAValidHandler(f, Append(b, <<"list", i + 1>>), c.ident) THEN <<>>
            ELSE <<Report(ifa, MsgMergeOld, c.ident.name, c.about)>>

\* P1's callback on the block at address b
P1Visit(f, im, b) ==
    Flatten([i \in 1..Len(NodeAt(f, b).list) |->
               IF im = "part_001" THEN P1StmtNew(f, b, i) ELSE P1StmtOld(f, b, i)])

----------------------------------------------------------------------------
(* P2, the per-assignment pass *)

TestSuffix == <<"_test", ".go">>

\* strings.HasSuffix
HasSuffix(s, suffix) ==
    Len(s) >= Len(suffix) /\ SubSeq(s, Len(s) - Len(suffix) + 1, Len(s)) = suffix

\* the loop over the call's result positions, from position i on; a named
\* target inside an if-else arm ends the whole callback (return)
RECURSIVE P2Results(_, _, _)
P2Results(f, a, i) ==
    LET n == NodeAt(f, a)
        results == n.rhs[1].results
    IN IF i > Len(results) THEN <<>>
       ELSE IF ~ImplementsError(results[i]) THEN P2Results(f, a, i + 1)
       ELSE IF i > Len(n.lhs) THEN P2Results(f, a, i + 1)
       ELSE IF n.lhs[i].kind # "Ident" THEN P2Results(f, a, i + 1)
       ELSE IF n.lhs[i].name = "_"
       THEN <<Report(LhsPos(a, i), MsgIgnored, "_", {LhsPos(a, i)})>> \o P2Results(f, a, i + 1)
       ELSE IF InIfElse(f, a) THEN <<>>
       ELSE IF isHandledInIfInit(f, a, n.lhs[i]) THEN P2Results(f, a, i + 1)
       ELSE IF ~isHandledInSubsequentStatement(f, a, n.lhs[i])
       THEN <<Report(LhsPos(a, i), MsgUnchecked, n.lhs[i].name, {LhsPos(a, i)})>>
            \o P2Results(f, a, i + 1)
       ELSE P2Results(f, a, i + 1)

\* P2's callback on the assignment at address a
P2Visit(f, a) ==
    LET n == NodeAt(f, a) IN
    IF HasSuffix(f.name, TestSuffix) THEN <<>>
    ELSE IF Len(n.rhs) # 1 THEN <<>>
    ELSE IF n.rhs[1].kind # "CallExpr" THEN <<>>
    ELSE IF ~n.rhs[1].isSig THEN <<>>
    ELSE IF Len(n.rhs[1].results) = 0 THEN <<>>
    ELSE P2Results(f, a, 1)

----------------------------------------------------------------------------
(* the programs analysed *)

MaxTail == 2    \* statements following the statement under study
MaxArm == 2     \* statements of the then-arm of an if-else

SeqsOver(S, n) == UNION {[1..k -> S] : k \in 0..n}

CallE == RhsCall(TRUE, <<"error">>)              \* func fail() error
CallSE == RhsCall(TRUE, <<"string", "error">>)    \* func mightFail() (string, error)
CallEE == RhsCall(TRUE, <<"error", "error">>)     \* func two() (error, error)

Asg(o) == AssignStmt(<<Ident(o)>>, <<CallE>>)                 \* o = fail()
AsgB(o) == AssignStmt(<<Blank, Ident(o)>>, <<CallSE>>)        \* _, o = mightFail()
AsgS(o) == AssignStmt(<<Ident("s"), Ident(o)>>, <<CallSE>>)   \* s, o = mightFail()
AsgEB(o) == AssignStmt(<<Ident(o), Blank>>, <<CallEE>>)       \* o, _ = two()
Discard == AssignStmt(<<Blank>>, <<CallE>>)                   \* _ = fail()
DiscardAll == AssignStmt(<<Blank, Blank>>, <<CallSE>>)        \* _, _ = mightFail()
Copy(o) == AssignStmt(<<Ident(o)>>, <<Ident("sentinel")>>)    \* o = ErrServerClosed
AsgField == AssignStmt(<<FieldSel>>, <<CallE>>)               \* s.err = fail()
Convert(o) == AssignStmt(<<Ident(o)>>, <<RhsCall(FALSE, <<>>)>>)  \* o = error(x)
Pair(o) == AssignStmt(<<Ident(o), Ident("s")>>, <<Ident("sentinel"), OtherExpr>>)  \* o, s = a, b

NotNil(o) == BinaryExpr("NEQ", Ident(o), NilLit)
Check(o) == IfStmt(None, NotNil(o), <<>>, None)                               \* if o != nil {}
CheckRev(o) == IfStmt(None, BinaryExpr("NEQ", NilLit, Ident(o)), <<>>, None)  \* if nil != o {}
BareReturn == ReturnStmt(<<>>)
Return(o) == ReturnStmt(<<Ident("s"), Ident(o)>>)                             \* return s, o
\* if cond { o = fail() }: no handler of o, re-binds o inside
Rebind(o) == IfStmt(None, OtherExpr, <<Asg(o)>>, None)
\* go func() { o = fail() }(): re-binds o inside a closure
GoRebind(o) == GoStmt(<<>>, <<Asg(o)>>)

Plain == <<"x", ".go">>
Test == <<"x", "_test", ".go">>
FileNames == {Plain, Test}

Func(results, body) == FuncDecl(results, body)
ResultSlots == {<<>>, <<Ident("err1")>>}

\* F1: an assignment followed by simple statements, in a function body
Heads ==
    {Asg("err1"), AsgB("err1"), AsgS("err1"), AsgEB("err1"), Discard, DiscardAll,
     Copy("err1"), AsgField, Convert("err1"), Pair("err1")}
NextStmts ==
    {Check("err1"), CheckRev("err1"), Check("err2"), Copy("err1"), Asg("err2"),
     Rebind("err1"), GoRebind("err1"), ExprStmt, BareReturn, Return("err1")}
LaterStmts == {Check("err1"), Copy("err1"), ExprStmt}
Tails == {<<>>} \cup {<<x>> \o t : x \in NextStmts, t \in SeqsOver(LaterStmts, MaxTail - 1)}
FlatBodies == {<<h>> \o t : h \in Heads, t \in Tails}

\* F2: an assignment and its followers inside an enclosing statement, itself
\* followed by at most one outer statement
InnerHeads == {Asg("err1"), AsgEB("err1"), Discard}
InnerTailStmts == {Check("err1"), Copy("err1"), BareReturn}
InnerSeqs == {<<h>> \o t : h \in InnerHeads, t \in SeqsOver(InnerTailStmts, MaxTail)}
Siblings == {<<Check("err1")>>, <<Copy("err1")>>}
Containers(q) ==
    {BlockStmt(q),
     IfStmt(None, OtherExpr, q, None),
     IfStmt(None, OtherExpr, q, BlockStmt(<<>>)),
     IfStmt(None, OtherExpr, <<>>, BlockStmt(q)),
     IfStmt(None, OtherExpr, <<>>, IfStmt(None, OtherExpr, q, None)),
     GoStmt(<<>>, q),
     ForStmt(q)}
    \cup {SwitchStmt(<<CaseClause(q), CaseClause(sib)>>) : sib \in Siblings}
    \cup {SwitchStmt(<<CaseClause(sib), CaseClause(q)>>) : sib \in Siblings}
    \cup {SelectStmt(<<CommClause(q), CommClause(sib)>>) : sib \in Siblings}
OuterTails == {<<>>, <<Check("err1")>>}
NestedBodies == {<<c>> \o o : c \in UNION {Containers(q) : q \in InnerSeqs}, o \in OuterTails}

\* F3: an if with an else (a block or an else-if) whose arms assign, as a
\* statement of a function body, of a nested block or of a switch case
ThenArms == SeqsOver({Asg("err1"), Asg("err2"), Check("err1")}, MaxArm) \cup {<<Copy("err1")>>}
ElseArms ==
    {<<>>, <<Asg("err1")>>, <<Asg("err2")>>, <<Asg("e")>>, <<Asg("err1"), Check("err1")>>,
     <<Copy("err1")>>, <<AsgEB("err1")>>}
Elses ==
    {BlockStmt(q) : q \in ElseArms}
    \cup {IfStmt(None, OtherExpr, q, None) : q \in {<<>>, <<Asg("err1")>>}}
    \cup {IfStmt(None, OtherExpr, <<Asg("err1")>>, BlockStmt(<<Asg("err1")>>))}
IfElses == {IfStmt(None, OtherExpr, a, e) : a \in ThenArms, e \in Elses}
MergeTails ==
    {<<>>, <<Check("err1")>>, <<ExprStmt, Check("err1")>>, <<Copy("err1"), Check("err1")>>,
     <<Check("err2")>>}
NestedMergeTails == {<<>>, <<Check("err1")>>}
MergeBodies ==
    {<<i>> \o t : i \in IfElses, t \in MergeTails}
    \cup {<<BlockStmt(<<i>> \o t)>> : i \in IfElses, t \in NestedMergeTails}
    \cup {<<SwitchStmt(<<CaseClause(<<i>> \o t)>>)>> : i \in IfElses, t \in NestedMergeTails}

\* F4: an assignment as the initializer of an if, followed by simple statements
InitConds ==
    {NotNil("err1"), NotNil("err2"), OtherExpr,
     QualCall("errors", "Is", <<Ident("err1"), Ident("sentinel")>>)}
InitIfs ==
    {IfStmt(Asg("err1"), c, b, e) : c \in InitConds, b \in {<<>>, <<Check("err1")>>},
                                    e \in {None, BlockStmt(<<>>)}}
InitTails == SeqsOver({Check("err1"), Copy("err1"), ExprStmt}, MaxTail)
InitBodies ==
    {<<i>> \o t : i \in InitIfs, t \in InitTails}
    \cup {<<IfStmt(None, OtherExpr, <<>>, i)>> \o t : i \in InitIfs, t \in InitTails}

Files ==
    {File(nm, Func(r, b)) : nm \in FileNames, r \in ResultSlots, b \in FlatBodies}
    \cup {File(nm, Func(<<>>, b)) : nm \in FileNames, b \in NestedBodies \cup MergeBodies \cup InitBodies}

Impls == {"errcheckif.go", "part_001"}

----------------------------------------------------------------------------
(* the analysis as a state machine: run *)

Init ==
    /\ file \in Files
    /\ impl \in Impls
    /\ pc = "run"
    /\ blocks = OfKind(file, "BlockStmt")
    /\ assigns = OfKind(file, "AssignStmt")
    /\ diags = <<>>
    /\ cond = None
    /\ target = None
    /\ stmt = <<>>
    /\ verdict = FALSE

\* P1's callback on the next block
VisitBlock ==
    /\ pc = "run"
    /\ blocks # <<>>
    /\ diags' = diags \o P1Visit(file, impl, Head(blocks))
    /\ blocks' = Tail(blocks)
    /\ UNCHANGED <<file, impl, pc, assigns, cond, target, stmt, verdict>>

\* P2's callback on the next assignment, once P1 is over
VisitAssign ==
    /\ pc = "run"
    /\ blocks = <<>>
    /\ assigns # <<>>
    /\ diags' = diags \o P2Visit(file, Head(assigns))
    /\ assigns' = Tail(assigns)
    /\ UNCHANGED <<file, impl, pc, blocks, cond, target, stmt, verdict>>

\* return nil, nil
Finish ==
    /\ pc = "run"
    /\ blocks = <<>>
    /\ assigns = <<>>
    /\ pc' = "done"
    /\ UNCHANGED <<file, impl, blocks, assigns, diags, cond, target, stmt, verdict>>

Next == VisitBlock \/ VisitAssign \/ Finish

Spec == Init /\ [][Next]_vars

----------------------------------------------------------------------------
(* checkCondition applied to condition trees *)

MaxDepth == 1   \* nesting depth of && and || above the comparisons and calls

ErrIdents == {Ident("err1"), Ident("err2")}
Operands == {Ident("err1"), Ident("err2"), Ident("sentinel"), NilLit, OtherExpr}
Comparisons == {BinaryExpr(op, x, y) : op \in {"NEQ", "EQL", "LSS"}, x \in Operands, y \in Operands}
ArgLists ==
    {<<>>, <<Ident("err1"), Ident("sentinel")>>, <<Ident("err2"), Ident("sentinel")>>,
     <<Ident("sentinel"), Ident("err1")>>, <<ParenExpr(Ident("err1")), Ident("sentinel")>>}
Calls ==
    {QualCall(pkg, sel, args) : pkg \in {"errors", "xerrors"}, sel \in {"Is", "As", "Unwrap"},
                                args \in ArgLists}
    \cup {PlainCall("isErr", <<Ident("err1")>>)}
    \cup {[kind |-> "CallExpr", fun |-> [kind |-> "SelectorExpr", x |-> FieldSel, sel |-> "Is"],
           args |-> <<Ident("err1"), Ident("sentinel")>>]}
Leaves ==
    Comparisons \cup Calls \cup Operands
    \cup {ParenExpr(NotNil("err1")), ParenExpr(QualCall("errors", "Is", <<Ident("err1"), Ident("sentinel")>>))}
Connected == {NotNil("err1"), BinaryExpr("NEQ", Ident("err1"), Ident("sentinel")), NotNil("err2"),
              QualCall("errors", "As", <<Ident("err1"), Ident("sentinel")>>)}

RECURSIVE CondTrees(_)
CondTrees(d) ==
    IF d = 0 THEN Leaves
    ELSE CondTrees(d - 1)
         \cup {BinaryExpr(op, x, y) : op \in {"LAND", "LOR"}, x \in CondTrees(d - 1), y \in Connected}
         \cup {BinaryExpr(op, y, x) : op \in {"LAND", "LOR"}, x \in CondTrees(d - 1), y \in Connected}

InitCond ==
    /\ cond \in CondTrees(MaxDepth)
    /\ target \in ErrIdents
    /\ pc = "eval"
    /\ file = None
    /\ impl = "part_001"
    /\ blocks = <<>>
    /\ assigns = <<>>
    /\ diags = <<>>
    /\ stmt = <<>>
    /\ verdict = FALSE

EvalCondition ==
    /\ pc = "eval"
    /\ verdict' = checkCondition(cond, target)
    /\ pc' = "evaluated"
    /\ UNCHANGED <<file, impl, blocks, assigns, diags, cond, target, stmt>>

NextCond == EvalCondition

SpecCond == InitCond /\ [][NextCond]_vars

----------------------------------------------------------------------------
(* isStmtAValidHandler applied to the statements of a function *)

Returns ==
    {BareReturn, Return("err1"), Return("err2"), ReturnStmt(<<Ident("s")>>),
     ReturnStmt(<<OtherExpr, NilLit>>)}
HandlerBodies ==
    {<<Asg(o), r>> : o \in {"err1", "err2"}, r \in Returns \cup {Check("err1"), ExprStmt}}
NamedSlots == {<<>>, <<Ident("err1")>>, <<Ident("err2")>>, <<Ident("s"), Ident("err1")>>}
HandlerFiles ==
    {File(Plain, FuncDecl(r, b)) : r \in NamedSlots, b \in HandlerBodies}
    \cup {File(Plain, FuncDecl(r, <<BlockStmt(b)>>)) : r \in NamedSlots, b \in HandlerBodies}
    \cup {File(Plain, FuncDecl(r, <<GoStmt(lr, b), BareReturn>>)) :
             r \in NamedSlots, lr \in NamedSlots, b \in HandlerBodies}

\* the statements of f: the elements of its statement lists
Statements(f) ==
    {a \in Range(Walk(f, <<>>)) : a # <<>> /\ a[Len(a)][1] = "list"
                                  /\ NodeAt(f, a).kind \notin {"CaseClause", "CommClause"}}

InitClassify ==
    /\ file \in HandlerFiles
    /\ stmt \in Statements(file)
    /\ target \in ErrIdents
    /\ pc = "eval"
    /\ impl = "part_001"
    /\ blocks = <<>>
    /\ assigns = <<>>
    /\ diags = <<>>
    /\ cond = None
    /\ verdict = FALSE

Classify ==
    /\ pc = "eval"
    /\ verdict' = isStmtAValidHandler(file, stmt, target)
    /\ pc' = "evaluated"
    /\ UNCHANGED <<file, impl, blocks, assigns, diags, cond, target, stmt>>

NextClassify == Classify

SpecClassify == InitClassify /\ [][NextClassify]_vars

----------------------------------------------------------------------------
(* findLastUnhandledError on its own: the arm of an if-else *)

ArmStmts ==
    {Asg("err1"), Asg("err2"), AsgB("e"), Check("err1"), Check("err2"), Copy("err1"),
     BareReturn}
Arms == SeqsOver(ArmStmts, MaxArm + 1)
ArmFiles ==
    {File(Plain, Func(r, <<IfStmt(None, OtherExpr, q, BlockStmt(<<>>))>>)) :
        r \in ResultSlots, q \in Arms}
\* ifStmt.Body of the only statement of the function
ArmAddr == << <<"decl", 0>>, <<"body", 0>>, <<"list", 1>>, <<"body", 0>> >>

InitArm ==
    /\ file \in ArmFiles
    /\ impl = "part_001"
    /\ pc = "arm"
    /\ blocks = <<>>
    /\ assigns = <<>>
    /\ diags = <<>>
    /\ cond = None
    /\ target = None
    /\ stmt = ArmAddr
    /\ verdict = FALSE

\* errIdentIf := findLastUnhandledError(pass, ifBody, errorInterface)
FindLast ==
    /\ pc = "arm"
    /\ target' = findLastUnhandledError(file, stmt)
    /\ pc' = "found"
    /\ UNCHANGED <<file, impl, blocks, assigns, diags, cond, stmt, verdict>>

NextArm == FindLast

SpecArm == InitArm /\ [][NextArm]_vars

----------------------------------------------------------------------------
(* vocabulary of the properties *)

Done == pc = "done"
IsTestFile == HasSuffix(file.name, TestSuffix)

AssignAddrs == Range(OfKind(file, "AssignStmt"))

\* the assignment at address a has a single call on its right whose result
\* position i is error-typed
ErrorResult(a, i) ==
    LET n == NodeAt(file, a) IN
    /\ Len(n.rhs) = 1
    /\ n.rhs[1].kind = "CallExpr"
    /\ n.rhs[1].isSig
    /\ i \in 1..Len(n.rhs[1].results)
    /\ i \in 1..Len(n.lhs)
    /\ ImplementsError(n.rhs[1].results[i])

\* failure-indicator bindings: [a, i] with the left-hand target i of the
\* assignment at a a named variable bound to an error-typed call result
Bindings ==
    {b \in [a : AssignAddrs, i : 1..2] :
        /\ ErrorResult(b.a, b.i)
        /\ NodeAt(file, b.a).lhs[b.i].kind = "Ident"
        /\ NodeAt(file, b.a).lhs[b.i].name # "_"}

\* discarded error results
Discards ==
    {b \in [a : AssignAddrs, i : 1..2] :
        /\ ErrorResult(b.a, b.i)
        /\ NodeAt(file, b.a).lhs[b.i].kind = "Ident"
        /\ NodeAt(file, b.a).lhs[b.i].name = "_"}

Var(b) == NodeAt(file, b.a).lhs[b.i]
Pos(b) == LhsPos(b.a, b.i)

\* the statement at address a is an element of a statement sequence
InSequence(a) == a # <<>> /\ a[Len(a)][1] = "list"
SeqOf(a) == Parent(a, 1)
IndexOf(a) == a[Len(a)][2]
SeqLen(a) == Len(NodeAt(file, SeqOf(a)).list)
Sibling(a, j) == Append(SeqOf(a), <<"list", j>>)

\* n is `if v != nil` or `if nil != v`
IsNotNilCheck(n, v) ==
    /\ n.kind = "IfStmt"
    /\ n.cond.kind = "BinaryExpr"
    /\ n.cond.op = "NEQ"
    /\ \/ n.cond.x = Ident(v.obj) /\ n.cond.y = NilLit
       \/ n.cond.x = NilLit /\ n.cond.y = Ident(v.obj)

\* n is an assignment, not nested in anything, to the variable of v
AssignsTo(n, v) ==
    /\ n.kind = "AssignStmt"
    /\ \E k \in 1..Len(n.lhs) : n.lhs[k].kind = "Ident" /\ n.lhs[k].obj = v.obj

DiagsAbout(pos) == {k \in 1..Len(diags) : pos \in diags[k].about}
DiagsAt(pos) == {k \in 1..Len(diags) : diags[k].pos = pos}
Unchecked(b) == \E k \in DiagsAt(Pos(b)) : diags[k].msg = MsgUnchecked

----------------------------------------------------------------------------
(* C1: a failure-indicator binding whose next statement in the same sequence
   is `if v != nil` (or `if nil != v`) on the same variable never gets a
   diagnostic of any kind. *)
C1_CheckedNextNeverReported ==
    \A b \in Bindings :
        (/\ InSequence(b.a)
         /\ IndexOf(b.a) < SeqLen(b.a)
         /\ IsNotNilCheck(NodeAt(file, Sibling(b.a, IndexOf(b.a) + 1)), Var(b)))
        => DiagsAbout(Pos(b)) = {}

(* C2: a failure-indicator binding followed, up to the end of its sequence,
   only by one unconditional assignment to the same variable is reported,
   wherever it sits (stated for files that are not test files, which the
   analyzer skips by convention). *)
C2_OverwrittenAlwaysReported ==
    (Done /\ ~IsTestFile) =>
    \A b \in Bindings :
        (/\ InSequence(b.a)
         /\ IndexOf(b.a) + 1 = SeqLen(b.a)
         /\ AssignsTo(NodeAt(file, Sibling(b.a, IndexOf(b.a) + 1)), Var(b)))
        => DiagsAbout(Pos(b)) # {}

\* the function (declaration or literal) that immediately encloses address a
EnclosingFuncs(a) ==
    SelectSeq([k \in 1..PathLen(a) |-> Parent(a, k - 1)],
              LAMBDA x : NodeAt(file, x).kind \in {"FuncDecl", "FuncLit"})
EnclosingFunc(a) == NodeAt(file, Head(EnclosingFuncs(a)))

(* C3: a return statement is a handler of the target iff one of its results
   is the target's variable, or it has no results and the function that
   immediately encloses it (a declaration or a function literal) has a named
   result slot that is the target's variable. *)
C3_ReturnHandler ==
    (pc = "evaluated" /\ NodeAt(file, stmt).kind = "ReturnStmt") =>
    LET n == NodeAt(file, stmt)
        fn == EnclosingFunc(stmt)
    IN verdict <=>
          \/ \E i \in 1..Len(n.results) : n.results[i] = Ident(target.obj)
          \/ /\ Len(n.results) = 0
             /\ \E i \in 1..Len(fn.results) : fn.results[i] = Ident(target.obj)

IsPrefix(x, a) == Len(x) <= Len(a) /\ SubSeq(a, 1, Len(x)) = x
DiagsWithin(x) == {k \in 1..Len(diags) : IsPrefix(x, diags[k].pos)}

ThenStmt(x) == Append(Append(x, <<"body", 0>>), <<"list", 1>>)
ElseStmt(x) == Append(Append(x, <<"els", 0>>), <<"list", 1>>)

\* the statement at x is `if cond { v = A() } else { v = B() }`, an element
\* of a statement sequence; MergeVar(x) is v
IsMergeShape(x) ==
    LET n == NodeAt(file, x) IN
    /\ n.kind = "IfStmt"
    /\ InSequence(x)
    /\ n.els.kind = "BlockStmt"
    /\ Len(n.body.list) = 1
    /\ Len(n.els.list) = 1
    /\ \E b1 \in Bindings, b2 \in Bindings :
          /\ b1.a = ThenStmt(x)
          /\ b2.a = ElseStmt(x)
          /\ Var(b1).obj = Var(b2).obj
    /\ ~\E d \in Discards : d.a \in {ThenStmt(x), ElseStmt(x)}
MergeVar(x) == LET b == CHOOSE b \in Bindings : b.a = ThenStmt(x) IN Var(b)
MergeShapes == {x \in Range(OfKind(file, "IfStmt")) : IsMergeShape(x)}

HandlerFollows(x, v) ==
    \E j \in (IndexOf(x) + 1)..SeqLen(x) : isStmtAValidHandler(file, Sibling(x, j), v)

(* C4: for `if cond { err = A() } else { err = B() }` as a statement of any
   statement sequence: followed directly by `if err != nil {}` it gets no
   diagnostic; with no handler after it, it gets exactly one diagnostic, the
   merge diagnostic, anchored at the if statement. *)
C4_MergeCase ==
    \A x \in MergeShapes :
        /\ (/\ IndexOf(x) < SeqLen(x)
            /\ IsNotNilCheck(NodeAt(file, Sibling(x, IndexOf(x) + 1)), MergeVar(x)))
           => DiagsWithin(x) = {}
        /\ (Done /\ ~HandlerFollows(x, MergeVar(x)))
           => /\ Cardinality(DiagsWithin(x)) = 1
              /\ \A k \in DiagsWithin(x) : diags[k].pos = x /\ diags[k].msg \in MergeMsgs

(* C5: a file whose name ends in _test.go gets no diagnostic at all. *)
C5_TestFilesSilent == IsTestFile => diags = <<>>

(* C6: every error-typed result position of a single-call assignment whose
   target is `_` gets exactly one "ignored" diagnostic, anchored at that `_`,
   also inside an arm of an if-else (stated for files that are not test
   files). *)
C6_DiscardReportedOnce ==
    (Done /\ ~IsTestFile) =>
    \A d \in Discards :
        /\ Cardinality(DiagsAt(Pos(d))) = 1
        /\ \A k \in DiagsAt(Pos(d)) : diags[k].msg = MsgIgnored

\* c is errors.Is(v, ...) or errors.As(v, ...)
IsErrorsCall(c, v) ==
    /\ c.kind = "CallExpr"
    /\ c.fun.kind = "SelectorExpr"
    /\ c.fun.x.kind = "Ident"
    /\ c.fun.x.name = "errors"
    /\ c.fun.sel \in {"Is", "As"}
    /\ Len(c.args) > 0
    /\ c.args[1] = Ident(v.obj)

\* the reference evaluator: either side of && and ||; for == and != the
\* variable against nil in either order; a call by IsErrorsCall; else false
RECURSIVE RefCheck(_, _)
RefCheck(c, v) ==
    IF c.kind = "BinaryExpr" /\ c.op \in {"LAND", "LOR"}
    THEN RefCheck(c.x, v) \/ RefCheck(c.y, v)
    ELSE IF c.kind = "BinaryExpr" /\ c.op \in {"EQL", "NEQ"}
    THEN \/ c.x = Ident(v.obj) /\ c.y = NilLit
         \/ c.x = NilLit /\ c.y = Ident(v.obj)
    ELSE IsErrorsCall(c, v)

(* C7: checkCondition equals the reference evaluator on every condition
   tree: for && and || the disjunction of the two sides, for == and != true
   iff one operand is the target's variable and the other is nil, in either
   order, and false for every other expression that is not a call. *)
C7_ConditionReference == pc = "evaluated" => (verdict <=> RefCheck(cond, target))

\* an && whose right side alone is no check, accepted by its left side
C7_Witness ==
    /\ pc = "evaluated"
    /\ cond.kind = "BinaryExpr"
    /\ cond.op = "LAND"
    /\ ~RefCheck(cond.y, target)
    /\ verdict

(* C8 as stated: a call pkg.Is(v, ...) or pkg.As(v, ...) is a check of v
   whatever the qualifier pkg is, and is no check with another first
   argument. *)
C8_AnyQualifier ==
    (/\ pc = "evaluated"
     /\ cond.kind = "CallExpr"
     /\ cond.fun.kind = "SelectorExpr"
     /\ cond.fun.x.kind = "Ident"
     /\ cond.fun.sel \in {"Is", "As"})
    => (verdict <=> (Len(cond.args) > 0 /\ cond.args[1] = Ident(target.obj)))

(* C8 amended: a call condition is a check of v exactly when its callee is
   the two-part reference errors.Is or errors.As (first part the identifier
   named errors) and its first argument is the variable v. *)
C8_ErrorsQualifier ==
    (pc = "evaluated" /\ cond.kind = "CallExpr") => (verdict <=> IsErrorsCall(cond, target))

C8_Witness ==
    /\ pc = "evaluated"
    /\ cond = QualCall("errors", "As", <<Ident("err1"), Ident("sentinel")>>)
    /\ target = Ident("err1")
    /\ verdict

\* the forward scan, declaratively: some statement from position j on is a
\* handler of v and no statement between contains a re-binding of v
RefScan(seq, j, v) ==
    \E k \in j..Len(NodeAt(file, seq).list) :
        /\ isStmtAValidHandler(file, Append(seq, <<"list", k>>), v)
        /\ \A m \in j..(k - 1) : ~isIdentifierReassigned(file, Append(seq, <<"list", m>>), v)

HandledAfter(a, v) == RefScan(SeqOf(a), IndexOf(a) + 1, v)

\* bindings made by the initializer clause of an if statement
InitBindings ==
    {b \in Bindings : b.a[Len(b.a)][1] = "init" /\ NodeAt(file, Parent(b.a, 1)).kind = "IfStmt"}
InitCondition(b) == NodeAt(file, Parent(b.a, 1)).cond

\* the nearest statement around address a that is an element of a sequence
RECURSIVE Holder(_)
Holder(a) == IF InSequence(a) THEN a ELSE Holder(Parent(a, 1))

(* C9 as stated: for a binding made by the initializer of an if, the if's
   own condition is the sole forward check: it is reported iff the condition
   does not check it, whatever follows the if (non-test files). *)
C9_ConditionSoleCheck ==
    (Done /\ ~IsTestFile) =>
    \A b \in InitBindings : Unchecked(b) <=> ~checkCondition(InitCondition(b), Var(b))

(* C9 amended: a binding made by the initializer of an if is handled when the
   if's condition checks it; otherwise the statements that follow the if (the
   outermost if of its else-if chain) in the enclosing sequence are scanned,
   and it is reported iff that scan meets no handler before a re-binding
   (non-test files). *)
C9_ConditionThenFollowers ==
    (Done /\ ~IsTestFile) =>
    \A b \in InitBindings :
        Unchecked(b) <=> (/\ ~checkCondition(InitCondition(b), Var(b))
                          /\ ~HandledAfter(Holder(b.a), Var(b)))

\* the condition does not check the binding, a statement after the if does,
\* and the binding is not reported
C9_Witness ==
    /\ Done
    /\ ~IsTestFile
    /\ \E b \in InitBindings :
          /\ ~checkCondition(InitCondition(b), Var(b))
          /\ HandledAfter(Holder(b.a), Var(b))
          /\ ~Unchecked(b)

\* the assignment at a is a direct statement of the body of an if that has
\* an else, or of an else block (left to the if-else pass)
InIfElseArm(a) ==
    /\ InSequence(a)
    /\ Len(a) >= 2
    /\ NodeAt(file, Parent(a, 2)).kind = "IfStmt"
    /\ \/ a[Len(a) - 1][1] = "els"
       \/ NodeAt(file, Parent(a, 2)).els.kind # "None"

SeqKind(a) == NodeAt(file, SeqOf(a)).kind

(* C10: the statement lists of a block, of a switch case and of a select case
   are scanned alike: a binding that is a statement of such a list (if-else
   arms aside) is reported iff no handler follows it in that same list before
   a re-binding; sibling cases play no part (non-test files). *)
C10_SameSequenceScan ==
    (Done /\ ~IsTestFile) =>
    \A b \in Bindings :
        (/\ InSequence(b.a)
         /\ SeqKind(b.a) \in {"BlockStmt", "CaseClause", "CommClause"}
         /\ ~InIfElseArm(b.a))
        => (Unchecked(b) <=> ~HandledAfter(b.a, Var(b)))

\* a binding in a switch/select case, handled in its own case and not
\* reported, while a sibling case re-binds the variable
C10_Witness ==
    /\ Done
    /\ ~IsTestFile
    /\ \E b \in Bindings :
          /\ InSequence(b.a)
          /\ SeqKind(b.a) \in {"CaseClause", "CommClause"}
          /\ HandledAfter(b.a, Var(b))
          /\ ~Unchecked(b)
          /\ \E j \in 1..SeqLen(SeqOf(b.a)) :
                /\ Sibling(SeqOf(b.a), j) # SeqOf(b.a)
                /\ isIdentifierReassigned(file, Sibling(SeqOf(b.a), j), Var(b))

\* the statement n contains, at any depth (nested bodies, else chains, cases,
\* loops and closures included), an assignment to the variable of v
RECURSIVE Rebinds(_, _)
Rebinds(n, v) ==
    CASE n.kind = "AssignStmt" -> AssignsTo(n, v)
      [] n.kind \in {"BlockStmt", "CaseClause", "CommClause"} ->
            \E i \in 1..Len(n.list) : Rebinds(n.list[i], v)
      [] n.kind = "IfStmt" ->
            \/ Rebinds(n.init, v)
            \/ Rebinds(n.body, v)
            \/ Rebinds(n.els, v)
      [] n.kind \in {"SwitchStmt", "SelectStmt", "ForStmt", "FuncLit"} -> Rebinds(n.body, v)
      [] n.kind = "GoStmt" -> Rebinds(n.call.fun, v)
      [] OTHER -> FALSE

\* the statement n contains an assignment to another variable that has the
\* name of v
RECURSIVE Shadows(_, _)
Shadows(n, v) ==
    CASE n.kind = "AssignStmt" ->
            \E k \in 1..Len(n.lhs) :
                n.lhs[k].kind = "Ident" /\ n.lhs[k].name = v.name /\ n.lhs[k].obj # v.obj
      [] n.kind \in {"BlockStmt", "CaseClause", "CommClause"} ->
            \E i \in 1..Len(n.list) : Shadows(n.list[i], v)
      [] n.kind = "IfStmt" -> Shadows(n.init, v) \/ Shadows(n.body, v) \/ Shadows(n.els, v)
      [] n.kind \in {"SwitchStmt", "SelectStmt", "ForStmt", "FuncLit"} -> Shadows(n.body, v)
      [] n.kind = "GoStmt" -> Shadows(n.call.fun, v)
      [] OTHER -> FALSE

\* bindings that the per-assignment pass scans forward from: statements of a
\* block, a switch case or a select case, if-else arms aside
ScannedBindings ==
    {b \in Bindings :
        /\ InSequence(b.a)
        /\ SeqKind(b.a) \in {"BlockStmt", "CaseClause", "CommClause"}
        /\ ~InIfElseArm(b.a)}

Follower(b, j) == NodeAt(file, Sibling(b.a, j))
IsHandler(b, j) == isStmtAValidHandler(file, Sibling(b.a, j), Var(b))

\* statement k after the binding is no handler and re-binds the variable at
\* some depth, and no statement before it is a handler
RebindsFirst(b, k) ==
    /\ ~IsHandler(b, k)
    /\ Rebinds(Follower(b, k), Var(b))
    /\ \A m \in (IndexOf(b.a) + 1)..(k - 1) : ~IsHandler(b, m)

\* statement k after the binding is a handler and no statement before it
\* re-binds the variable
HandlerFirst(b, k) ==
    /\ IsHandler(b, k)
    /\ \A m \in (IndexOf(b.a) + 1)..(k - 1) : ~Rebinds(Follower(b, m), Var(b))

(* C11: in the forward scan the first decisive statement wins: when a
   statement after the binding is no handler and contains, at any depth, an
   assignment to the binding's variable, and no handler precedes it, the
   binding is reported whatever follows; when a handler comes first, with
   nothing but assignments to other variables (same-named ones included)
   before it, the binding is not reported (non-test files). *)
C11_FirstDecisiveWins ==
    (Done /\ ~IsTestFile) =>
    \A b \in ScannedBindings :
        \A k \in (IndexOf(b.a) + 1)..SeqLen(b.a) :
            /\ RebindsFirst(b, k) => Unchecked(b)
            /\ HandlerFirst(b, k) => ~Unchecked(b)

\* a re-binding nested in an if body or in a closure, a handler after it, and
\* the binding reported
C11_Witness ==
    /\ Done
    /\ ~IsTestFile
    /\ \E b \in ScannedBindings :
          \E k \in (IndexOf(b.a) + 1)..SeqLen(b.a) :
              /\ RebindsFirst(b, k)
              /\ Follower(b, k).kind \in {"IfStmt", "GoStmt"}
              /\ \E j \in (k + 1)..SeqLen(b.a) : IsHandler(b, j)
              /\ Unchecked(b)

\* an assignment to a same-named other variable before the handler, and the
\* binding not reported
C11_ShadowReached ==
    /\ Done
    /\ ~IsTestFile
    /\ \E b \in ScannedBindings :
          \E k \in (IndexOf(b.a) + 2)..SeqLen(b.a) :
              /\ HandlerFirst(b, k)
              /\ Shadows(Follower(b, k - 1), Var(b))
              /\ ~Unchecked(b)

\* nothing after the binding in its own sequence is a handler or a
\* re-binding of its variable
Exhausted(b) ==
    \A j \in (IndexOf(b.a) + 1)..SeqLen(b.a) :
        ~IsHandler(b, j) /\ ~Rebinds(Follower(b, j), Var(b))

\* the statements around the binding that are elements of an outer sequence
Enclosers(b) ==
    {x \in {SubSeq(b.a, 1, n) : n \in 1..(Len(b.a) - 1)} : InSequence(x)}

\* a handler of the binding's variable follows the enclosing statement x in
\* x's own sequence
HandlerAfter(x, v) ==
    \E j \in (IndexOf(x) + 1)..SeqLen(x) : isStmtAValidHandler(file, Sibling(x, j), v)

(* C12: a binding whose own statement sequence holds neither a handler nor a
   re-binding after it is reported, whatever follows the enclosing block,
   loop, case or other statement in an outer sequence (bindings that are
   statements of a sequence, if-else arms aside, non-test files). *)
C12_NoOuterSequence ==
    (Done /\ ~IsTestFile) =>
    \A b \in ScannedBindings : Exhausted(b) => Unchecked(b)

\* the own sequence is exhausted, a handler follows an enclosing statement,
\* and the binding is reported
C12_Witness ==
    /\ Done
    /\ ~IsTestFile
    /\ \E b \in ScannedBindings :
          /\ Exhausted(b)
          /\ \E x \in Enclosers(b) : HandlerAfter(x, Var(b))
          /\ Unchecked(b)

\* bindings that are direct statements of an arm of a conditional with an else
ArmBindings == {b \in Bindings : InIfElseArm(b.a)}

\* the conditional whose arm holds the binding, and the outermost conditional
\* of its else-if chain
ArmOwner(b) == Parent(b.a, 2)
ChainRoot(b) == Holder(ArmOwner(b))

\* the branch-merge rule yields no merged obligation for the conditional at
\* x: its else is a chained else-if, or an arm has no last unhandled binding,
\* or the two arms' bindings are different variables
NoMergedObligation(x) ==
    LET n == NodeAt(file, x)
        inThen == findLastUnhandledError(file, Append(x, <<"body", 0>>))
        inElse == findLastUnhandledError(file, Append(x, <<"els", 0>>))
    IN \/ n.els.kind = "IfStmt"
       \/ inThen.kind = "None"
       \/ inElse.kind = "None"
       \/ inThen.ident.obj # inElse.ident.obj

(* C13: when the branch-merge rule yields no merged obligation for a
   conditional with an else, every failure-indicator binding that is a
   statement of one of its arms and has no handler after it in the arm is
   reported as "not checked or returned" (non-test files). *)
C13_ArmsStillScanned ==
    (Done /\ ~IsTestFile) =>
    \A b \in ArmBindings :
        (/\ NoMergedObligation(ChainRoot(b))
         /\ \A j \in (IndexOf(b.a) + 1)..SeqLen(b.a) : ~IsHandler(b, j))
        => Unchecked(b)

\* conditionals with an else block that are statements of a block
IfElseBlocks ==
    {x \in Range(OfKind(file, "IfStmt")) :
        /\ InSequence(x)
        /\ SeqKind(x) = "BlockStmt"
        /\ NodeAt(file, x).els.kind = "BlockStmt"}

ThenArm(x) == Append(x, <<"body", 0>>)
ElseArm(x) == Append(x, <<"els", 0>>)

\* the error variables assigned by the direct statements of the arm at a
ArmVariables(a) ==
    {NodeAt(file, a).list[i].lhs[k].obj :
        <<i, k>> \in {p \in (1..Len(NodeAt(file, a).list)) \X (1..2) :
                        LET n == NodeAt(file, a).list[p[1]] IN
                        /\ n.kind = "AssignStmt"
                        /\ p[2] <= Len(n.lhs)
                        /\ n.lhs[p[2]].kind = "Ident"
                        /\ n.lhs[p[2]].name # "_"
                        /\ ImplementsError(TypeOf(n.lhs[p[2]].obj))}}

MergeDiagAt(x) == \E k \in DiagsAt(x) : diags[k].msg \in MergeMsgs

(* C14: the branch-merge rule merges by variable identity: when the two arms
   of an if/else assign no common error variable (only, at most, different
   variables of the same name), the conditional gets no merge diagnostic. *)
C14_DistinctVariablesNoMerge ==
    \A x \in IfElseBlocks :
        ArmVariables(ThenArm(x)) \cap ArmVariables(ElseArm(x)) = {} => ~MergeDiagAt(x)

\* the failure-indicator bindings made by the direct statements of the arm
\* at stmt, and those with no handler among the later statements of the arm
InArm == {b \in Bindings : InSequence(b.a) /\ SeqOf(b.a) = stmt}
UnhandledInArm ==
    {b \in InArm : \A j \in (IndexOf(b.a) + 1)..SeqLen(b.a) : ~IsHandler(b, j)}

\* b1 is assigned after b2: a later statement, or further right in the same
Later(b1, b2) ==
    \/ IndexOf(b1.a) > IndexOf(b2.a)
    \/ IndexOf(b1.a) = IndexOf(b2.a) /\ b1.i > b2.i

\* every assignment of the arm to a named error variable binds a call result
\* (assignments from other expressions are the subject of C16)
CallAssignmentsOnly ==
    \A i \in 1..Len(NodeAt(file, stmt).list) :
        LET n == NodeAt(file, stmt).list[i] IN
        n.kind = "AssignStmt" =>
            \A k \in 1..Len(n.lhs) :
                (/\ n.lhs[k].kind = "Ident"
                 /\ n.lhs[k].name # "_"
                 /\ ImplementsError(TypeOf(n.lhs[k].obj)))
                => ErrorResult(Append(stmt, <<"list", i>>), k)

(* C15: over an arm whose assignments to error variables all bind call
   results, findLastUnhandledError returns nothing when every binding of the
   arm has a handler among the later statements of the arm, and otherwise the
   binding assigned last among those that have none. *)
C15_LastUnhandledInArm ==
    (pc = "found" /\ CallAssignmentsOnly) =>
        /\ UnhandledInArm = {} => target.kind = "None"
        /\ \A b \in UnhandledInArm :
              (\A c \in UnhandledInArm : c = b \/ Later(b, c))
              => (target.kind = "Cand" /\ target.pos = Pos(b))

\* an unhandled binding followed by a later binding that is handled in the
\* arm: the earlier one is returned
C15_Witness ==
    /\ pc = "found"
    /\ CallAssignmentsOnly
    /\ \E b1 \in UnhandledInArm, b2 \in InArm \ UnhandledInArm :
          /\ Later(b2, b1)
          /\ target.kind = "Cand"
          /\ target.pos = Pos(b1)

\* two unhandled bindings: the later one is returned
C15_SupersedeReached ==
    /\ pc = "found"
    /\ CallAssignmentsOnly
    /\ \E b1 \in UnhandledInArm, b2 \in UnhandledInArm :
          /\ Later(b2, b1)
          /\ target.kind = "Cand"
          /\ target.pos = Pos(b2)

\* the positions of the left-hand targets bound to (or discarding) an
\* error-typed result of a single call
CallResultTargets == {Pos(b) : b \in Bindings \cup Discards}

(* C16: only assignments whose right-hand side is a single call with an
   error-typed result give rise to diagnostics: every diagnostic, the if-else
   merge diagnostic included, stems from left-hand targets of such
   assignments only. *)
C16_OnlyCallAssignmentsReport ==
    \A k \in 1..Len(diags) : diags[k].about \subseteq CallResultTargets

====
